---- MODULE Spec2Model ----
(***************************************************************************)
(* latexml-runner: a pool of latexmls daemons (Server, src/src/server.rs)  *)
(* driven by a Harness (src/src/harness.rs) that converts a stream of TeX  *)
(* jobs in order-preserving parallel batches.                              *)
(*                                                                         *)
(* The daemons and the operating system are the environment: a daemon may  *)
(* exit, a spawn may fail, a response may be empty, undecodable or cut by  *)
(* an I/O error.  Every such outcome is a nondeterministic choice.         *)
(***************************************************************************)
EXTENDS Integers, Sequences, FiniteSets, TLC

(***************************************************************************)
(* Bounds of the model.                                                    *)
(***************************************************************************)
\* the worker counts (Harness.cpus) and rayon thread counts explored
CpuCounts == {1, 2}
\* longest input file, in records
MaxInput == 2
\* number of environment faults (a daemon exits or hangs, a spawn fails, a
\* response is empty, undecodable or cut) in one run
MaxFaults == 1
\* the same, for the runs of a Harness of one Server
MaxServerFaults == 2
\* number of convert_one calls on one Harness (beside its convert_file call)
MaxOnes == 1
\* the positive autoflush threshold explored (0, disabled, is always explored)
AutoflushK == 1
\* records per worker in one batch; the source uses 100 (harness.rs:66), the
\* model scales it down so that an input of MaxInput records spans batches
BatchFactor == 1
\* rotations explored in the port-assignment specification
MaxRotations == 3

(***************************************************************************)
(* Program constants.                                                      *)
(***************************************************************************)
\* distance between a Server's port and its backup port
BackupOffset == 200
\* status_code of LatexmlResponse::default()
FatalCode == 3
\* first port used in the model (the command line default)
FromPort == 3334
\* ports are u16 (server.rs:40-41): the number of values of a port
PortModulus == 65536
\* a variant of the attempts of a task without the two retries
SingleAttempt == 2 - 1
\* number of attempts a batch task makes per record: convert + retry 1 + retry 2
MaxAttempts == 3

VARIABLES
  cpus,          \* Harness.cpus
  autoflush,     \* Server.autoflush, the same for every Server of the Harness
  rayon_threads, \* rayon::current_num_threads() of the global pool
  strict_shutdown, \* the platform answers NotConnected to the shutdown of a
                 \* stream whose peer has closed
  servers,       \* the Server structs, by worker index (wherever they are held)
  queue,         \* Harness.servers: the ArrayQueue, as the sequence of indexes in it
  listening,     \* ports on which a latexmls daemon is accepting connections
  hung,          \* those of them whose daemon accepts and never answers
  hpc,           \* position of the thread that owns the Harness
  ops,           \* convert_one calls started so far
  fault_budget,  \* the number of environment faults a run may see
  faults,        \* environment faults so far
  kills,         \* those of them that are exits of a daemon
  file_format,   \* reader of the file being converted: "none", "txt" or "csv"
  raw_input,     \* the lines or rows of the file being converted, as they are on disk
  input,         \* the record stream of the file being converted
  consumed,      \* records of input already taken into batches
  chunk_data,    \* the batch being converted
  next_item,     \* par_bridge: position of the next record of the batch to hand out
  tasks,         \* the rayon threads: position, record, held Server, attempts, response
  results,       \* convert_iterator: (index, response) pairs in completion order,
                 \* each with the number of its attempts that returned an error
  result_sink,   \* records written by out_writer
  log_sink,      \* records written by log_writer
  sink_errs,     \* for each written record, how many of its attempts returned an error
  flushed,       \* number of records of the sinks made durable by flush()
  file_state,    \* convert_file: "none", "running", "ok" (returned Ok) or "err"
  last_one,      \* observation of the last convert_one call
  rotations,     \* port-assignment specification: rotations applied so far
  hash_order,    \* main: the order in which the keys of matches.args are iterated
  flag_values,   \* main: whether values_of yields a value for a flag that is present
  argv,          \* main: the options of the command line, in the order given
  boot_latexmls_opts, \* main: the boot-option list handed to Harness::new
  last_call,     \* direct calls of a Server: what the last call_latexmls of convert saw
  last_ensure    \* direct calls of a Server: what its last ensure_server found and did

\* the file being converted and the records read from it
source == <<file_format, raw_input, input>>

\* the command line and what main makes of it
cli == <<hash_order, flag_values, argv, boot_latexmls_opts>>

\* what Harness::new and the run fix once and for all, and what the Harness
\* has no hand in
config == <<cpus, autoflush, rayon_threads, strict_shutdown, fault_budget, cli,
            last_call, last_ensure>>

vars == <<config, servers, queue, listening, hung, hpc, ops, faults, kills, source,
          consumed, chunk_data, next_item, tasks, results, result_sink, log_sink,
          sink_errs, flushed, file_state, last_one, rotations>>

(***************************************************************************)
(* LatexmlResponse (server.rs:11-36).  status and log carry no behaviour   *)
(* of the runner beyond their default text; they are kept as one field.    *)
(***************************************************************************)
\* a variant of the sentinel that reports success: the record a Default
\* written after empty() would give
LatexmlResponse_blank == [status_code |-> 0, log |-> "", result |-> ""]

\* LatexmlResponse::default(): the sentinel record
LatexmlResponse_default ==
  [status_code |-> FatalCode, log |-> "Default latexml_runner fatal", result |-> ""]

\* LatexmlResponse::empty()
LatexmlResponse_empty == [status_code |-> 0, log |-> "", result |-> ""]

\* The jobs of the model and what a healthy daemon answers to each: the
\* conversion function f.  "a" converts cleanly, "b" is reported fatal by the
\* daemon itself (a decodable response whose status_code is 3).
Jobs == {"a", "b"}

Daemon(job) ==
  CASE job = "a" -> [status_code |-> 0, log |-> "ok", result |-> "A"]
    [] job = "b" -> [status_code |-> 3, log |-> "fatal", result |-> "B"]
    [] OTHER     -> [status_code |-> 0, log |-> "ok", result |-> "I"]

\* What one request/response exchange with the daemon can yield.
Resp == {"ok", "empty", "garbage", "ioerr"}

(***************************************************************************)
(* Server (server.rs:38-49).  child_proc is the Option<Child> together     *)
(* with what the OS knows of that child:                                   *)
(*   "None"    no handle,                                                  *)
(*   "Running" a handle to a running process,                              *)
(*   "Exited"  a handle to a process that has exited and is not yet reaped *)
(*             (try_wait would return Ok(Some(_))).                        *)
(* connection is the Option<TcpStream> and the port it was opened to.  A   *)
(* stream is only ever stored after read_to_end has returned Ok            *)
(* (server.rs:251, 264), that is after the daemon has closed its end: a    *)
(* stored stream carries no further response.                              *)
(* The remaining fields are observations kept for the properties:          *)
(*   ok_calls   calls answered with a decodable record since the last      *)
(*              rotation,                                                  *)
(*   over_begin a request began after more than autoflush such calls,      *)
(*   old_port   a request was written to a stream opened to a port the     *)
(*              Server had rotated away from,                              *)
(*   rotated    number of rotations,                                       *)
(*   leaked     a child whose handle was given up without kill and wait,   *)
(*   dropped    Drop for Server ran; panicked: it panicked,                *)
(*   killed_mid_batch  its daemon exited while a batch was being converted,*)
(*   after_rotate  the Server as the last rotate_ports that returned Ok    *)
(*              left it,                                                   *)
(*   boot_port  the port boot_at was given; resampled: resample_ports ran, *)
(*   second_child  a daemon was spawned while a child whose handle had     *)
(*              been given up without a kill was running.                  *)
(***************************************************************************)
NoConn == [open |-> FALSE, port |-> 0]

Stream(port) == [open |-> TRUE, port |-> port]

NoRotation ==
  [done |-> FALSE, swapped |-> FALSE, call_count |-> 0, child_proc |-> "None",
   stream |-> FALSE, spawned |-> FALSE]

\* `port + 200` on u16 (server.rs:63, 173) where overflow is not checked
\* (the release profile): the sum wraps.  Where it is checked the sum panics.
backup_of(port) == (port + BackupOffset) % PortModulus

Overflows(port) == port + BackupOffset >= PortModulus

NewServer(port, af) ==
  [port |-> port, backup_port |-> backup_of(port), autoflush |-> af,
   call_count |-> 0, child_proc |-> "None", connection |-> NoConn,
   ok_calls |-> 0, over_begin |-> FALSE, old_port |-> FALSE, rotated |-> 0,
   leaked |-> FALSE, dropped |-> FALSE, panicked |-> FALSE,
   killed_mid_batch |-> FALSE, after_rotate |-> NoRotation,
   boot_port |-> port, resampled |-> FALSE, second_child |-> FALSE]

(***************************************************************************)
(* The nondeterministic outcomes one liveness check and one call consult.  *)
(*   spawnOk  Command::spawn succeeds,                                     *)
(*   bootOk   the spawned daemon is accepting connections after the sleep, *)
(*   i1, i2   the exchanges of init_call (the call and its in-call retry), *)
(*   die      the daemon exits between ensure_server and the call,         *)
(*   r1, r2   the exchanges of the conversion call and its in-call retry.  *)
(* On a stored stream an exchange is empty, or cut by an I/O error; on a   *)
(* new stream to a daemon that answers it is "ok".  A failed spawn, a      *)
(* daemon that is not up in time, an exit of the daemon, an I/O error on a *)
(* stored stream and a response other than "ok" on a new stream count as   *)
(* faults; `budget` is the number of faults the run may still see.         *)
(***************************************************************************)
\* Only({e : x \in {v}}) is e with x standing for the value of v
Only(S) == CHOOSE x \in S : TRUE

CallChoices(budget) ==
  IF budget = 0
  THEN {<<"ok", "ok">>}
  ELSE {<<"ok", r>> : r \in Resp} \cup {<<"empty", r>> : r \in Resp}
       \cup {<<"ioerr", "ok">>, <<"garbage", "ok">>}

\* a variant of the rotation test without the test for a disabled autoflush
count_breached(srv) == srv.call_count > srv.autoflush

\* `self.autoflush > 0 && self.call_count > self.autoflush` (server.rs:110)
autoflush_breached(srv) == srv.autoflush > 0 /\ srv.call_count > srv.autoflush

\* the port ensure_server probes: the backup port when a rotation is due
ProbedPort(srv) ==
  IF autoflush_breached(srv) THEN srv.backup_port ELSE srv.port

SpawnChoices(srv, lst, budget) ==
  IF ProbedPort(srv) \in lst
  THEN {<<TRUE, TRUE, "ok", "ok">>}
  ELSE IF budget = 0
  THEN {<<TRUE, TRUE, "ok", "ok">>}
  ELSE {<<FALSE, TRUE, "ok", "ok">>}
       \cup {<<TRUE, b, c[1], c[2]>> : b \in BOOLEAN, c \in CallChoices(budget)}

Choices(srv, lst, budget) ==
  {[spawnOk |-> s[1], bootOk |-> s[2], i1 |-> s[3], i2 |-> s[4], die |-> d,
    r1 |-> c[1], r2 |-> c[2]] :
     s \in SpawnChoices(srv, lst, budget),
     d \in IF budget = 0 THEN {FALSE} ELSE BOOLEAN,
     c \in CallChoices(budget)}

GoodChoice ==
  [spawnOk |-> TRUE, bootOk |-> TRUE, i1 |-> "ok", i2 |-> "ok", die |-> FALSE,
   r1 |-> "ok", r2 |-> "ok"]

\* stream.shutdown(Shutdown::Both) returns Ok on a stored stream, whose peer
\* has closed: it does on some platforms, on others it is NotConnected
ShutdownSucceeds(stream) == ~strict_shutdown

(***************************************************************************)
(* Server::call_latexmls (server.rs:210-266), one pass through the body:   *)
(* count the call, take or open the stream, write the request, read the    *)
(* response.  kind is "ok" (a record is returned and the stream kept),     *)
(* "empty" (the response had no bytes) or "err".                           *)
(***************************************************************************)
call_once(srv, lst, hng, job, r) ==
  LET counted == [srv EXCEPT
                    !.call_count = @ + 1,
                    !.over_begin = @ \/ (srv.autoflush > 0 /\ srv.ok_calls > srv.autoflush)]
      reuse   == srv.connection.open
      stream  == IF reuse THEN srv.connection ELSE Stream(srv.port)
      taken   == [counted EXCEPT !.connection = NoConn]
      wrote   == [taken EXCEPT !.old_port = @ \/ (stream.port # srv.port)]
      eff     == IF reuse THEN IF r = "ioerr" THEN "ioerr" ELSE "empty"
                 ELSE IF stream.port \in hng THEN "ioerr" ELSE r
      cost    == IF reuse THEN IF r = "ioerr" THEN 1 ELSE 0
                 ELSE IF stream.port \notin hng /\ r # "ok" THEN 1 ELSE 0
  IN  IF ~reuse /\ srv.port \notin lst
      THEN \* both TcpStream::connect attempts fail
           [srv |-> taken, kind |-> "err", resp |-> LatexmlResponse_default, used |-> 0]
      ELSE CASE eff = "ioerr" ->
                  [srv |-> wrote, kind |-> "err", resp |-> LatexmlResponse_default,
                   used |-> cost]
             [] eff = "empty" ->
                  [srv |-> wrote, kind |-> "empty", resp |-> LatexmlResponse_default,
                   used |-> cost]
             [] eff = "garbage" ->
                  \* no separator or undecodable body: unwrap_or_default()
                  [srv |-> [wrote EXCEPT !.connection = stream], kind |-> "ok",
                   resp |-> LatexmlResponse_default, used |-> cost]
             [] OTHER ->
                  [srv |-> [wrote EXCEPT !.connection = stream, !.ok_calls = @ + 1],
                   kind |-> "ok", resp |-> Daemon(job), used |-> cost]

\* what the response of one exchange was: "ok" (a decodable record), "garbage"
\* (no separator or an undecodable body), "empty" or "err"
Outcome(c) ==
  IF c.kind = "ok" /\ c.resp = LatexmlResponse_default THEN "garbage" ELSE c.kind

\* what a call of call_latexmls with allow_retry = true saw and returned, for
\* the properties; `began` lists the call_count with which each of its
\* requests began (before the increment of server.rs:215)
CallSeen(first, began, second, kind, resp) ==
  [done |-> TRUE, first |-> first, requests |-> Len(began), began |-> began,
   second |-> second, kind |-> kind, status_code |-> resp.status_code]

NoCall ==
  [done |-> FALSE, first |-> "none", requests |-> 0, began |-> <<>>,
   second |-> "none", kind |-> "none", status_code |-> 0]

\* the recursive call of call_latexmls on an empty response (server.rs:252-254),
\* made with allow_retry = false: a second empty response is an error
retry_call(srv, c1, lst, hng, job, r2) ==
  Only({[srv |-> c2.srv, kind |-> IF c2.kind = "empty" THEN "err" ELSE c2.kind,
         resp |-> c2.resp, used |-> c2.used + c1.used,
         seen |-> CallSeen("empty", <<srv.call_count, c1.srv.call_count>>,
                           Outcome(c2),
                           IF c2.kind = "empty" THEN "err" ELSE c2.kind, c2.resp)] :
          c2 \in {call_once(c1.srv, lst, hng, job, r2)}})

\* Server::call_latexmls with its recursion on an empty response; `seen` tells
\* what it read and returned
call_latexmls(srv, lst, hng, job, allow_retry, r1, r2) ==
  Only({IF c1.kind # "empty"
        THEN [srv |-> c1.srv, kind |-> c1.kind, resp |-> c1.resp, used |-> c1.used,
              seen |-> CallSeen(Outcome(c1), <<srv.call_count>>, "none", c1.kind,
                                c1.resp)]
        ELSE IF allow_retry THEN retry_call(srv, c1, lst, hng, job, r2)
        ELSE [srv |-> c1.srv, kind |-> "err", resp |-> c1.resp, used |-> c1.used,
              seen |-> CallSeen("empty", <<srv.call_count>>, "none", "err", c1.resp)] :
          c1 \in {call_once(srv, lst, hng, job, r1)}})

\* Server::init_call (server.rs:191-208): the job of the probe is "1"
init_call(srv, lst, hng, i1, i2) == call_latexmls(srv, lst, hng, "1", TRUE, i1, i2)

(***************************************************************************)
(* Server::rotate_ports (server.rs:148-167)                                *)
(***************************************************************************)
\* what a rotate_ports that returned Ok left behind, for the properties
Observed(before, after, lst, lst2) ==
  [done |-> TRUE, swapped |-> (after.port = before.backup_port
                                /\ after.backup_port = before.port),
   call_count |-> after.call_count, child_proc |-> after.child_proc,
   stream |-> after.connection.open, spawned |-> (lst2 \ lst # {})]

rotate_ports(srv, lst) ==
  LET swapped == [srv EXCEPT !.port = srv.backup_port, !.backup_port = srv.port,
                             !.call_count = 0, !.ok_calls = 0, !.rotated = @ + 1]
      reaped  == [swapped EXCEPT !.child_proc = "None"]
      stopped == [swapped EXCEPT !.child_proc = "None", !.connection = NoConn]
  IN  CASE srv.child_proc = "None" ->
             [srv |-> [swapped EXCEPT !.after_rotate = Observed(srv, swapped, lst, lst)],
              lst |-> lst, ok |-> TRUE]
        [] srv.child_proc = "Exited" ->
             \* try_wait reaps the child; the stream is left as it is
             [srv |-> [reaped EXCEPT !.after_rotate = Observed(srv, reaped, lst, lst)],
              lst |-> lst, ok |-> TRUE]
        [] OTHER ->
             IF srv.connection.open /\ ~ShutdownSucceeds(srv.connection)
             THEN \* `?` returns with the child handle taken and not killed
                  [srv |-> [stopped EXCEPT !.leaked = TRUE], lst |-> lst, ok |-> FALSE]
             ELSE [srv |-> [stopped EXCEPT !.after_rotate =
                                      Observed(srv, stopped, lst, lst \ {srv.port})],
                   lst |-> lst \ {srv.port}, ok |-> TRUE]

(***************************************************************************)
(* Server::ensure_server (server.rs:102-145)                               *)
(***************************************************************************)
\* the head of ensure_server (server.rs:103-113): the child is reaped if it
\* has exited, and the ports are rotated if autoflush was breached
reap_and_rotate(srv, lst) ==
  LET reaped == IF srv.child_proc = "Exited"
                THEN [srv EXCEPT !.child_proc = "None"] ELSE srv
  IN  IF autoflush_breached(reaped)
      THEN rotate_ports(reaped, lst)
      ELSE [srv |-> reaped, lst |-> lst, ok |-> TRUE]

\* what one ensure_server found and did, for the properties: whether the
\* Server had a running child once the head was through, whether its port
\* could be bound, whether a daemon was spawned, the init_call invocations
\* and what the last of them saw, what was returned and the child handle left
Ensured(rot, spawned, inits, init, ok, after) ==
  [done |-> TRUE, live_child |-> (rot.srv.child_proc = "Running"),
   port_is_open |-> (rot.ok /\ rot.srv.port \notin rot.lst),
   spawned |-> spawned, inits |-> inits, init_kind |-> init.kind, init |-> init,
   ok |-> ok, child_proc |-> after.child_proc]

NoEnsure ==
  [done |-> FALSE, live_child |-> FALSE, port_is_open |-> FALSE, spawned |-> FALSE,
   inits |-> 0, init_kind |-> "none", init |-> NoCall, ok |-> FALSE,
   child_proc |-> "None"]

\* the spawn of ensure_server (server.rs:126-141) on a Server whose child
\* handle has been taken: the new child, the sleep, the init_call
spawn_and_init(rot, taken, l, hng, ch) ==
  LET l2 == IF ch.bootOk THEN l \cup {taken.port} ELSE l
  IN  Only({[srv |-> ic.srv, lst |-> l2, ok |-> (ic.kind = "ok"),
             used |-> ic.used + (IF ch.bootOk THEN 0 ELSE 1),
             seen |-> Ensured(rot, TRUE, 1, ic.seen, ic.kind = "ok", ic.srv)] :
              ic \in {init_call([taken EXCEPT !.child_proc = "Running",
                                              !.second_child = @ \/ taken.leaked],
                                l2, hng \cap l, ch.i1, ch.i2)}})

\* the rest of ensure_server (server.rs:114-144), rot being what its head left
probe_and_boot(rot, hng, ch) ==
  LET s == rot.srv
      l == rot.lst
      port_is_open == s.port \notin l
      hasChild == s.child_proc # "None"
      taken == IF hasChild
               THEN [s EXCEPT !.child_proc = "None", !.connection = NoConn] ELSE s
  IN  IF ~rot.ok
      THEN [srv |-> s, lst |-> l, ok |-> FALSE, used |-> 0,
            seen |-> Ensured(rot, FALSE, 0, NoCall, FALSE, s)]
      ELSE IF ~port_is_open
      THEN [srv |-> s, lst |-> l, ok |-> TRUE, used |-> 0,
            seen |-> Ensured(rot, FALSE, 0, NoCall, TRUE, s)]
      ELSE IF hasChild /\ s.connection.open /\ ~ShutdownSucceeds(s.connection)
           THEN [srv |-> [taken EXCEPT !.leaked = TRUE], lst |-> l, ok |-> FALSE,
                 used |-> 0, seen |-> Ensured(rot, FALSE, 0, NoCall, FALSE, taken)]
      ELSE IF ~ch.spawnOk
           THEN [srv |-> taken, lst |-> l, ok |-> FALSE, used |-> 1,
                 seen |-> Ensured(rot, FALSE, 0, NoCall, FALSE, taken)]
      ELSE Only({spawn_and_init(rot, t, l, hng, ch) : t \in {taken}})

ensure_server(srv, lst, hng, ch) ==
  Only({probe_and_boot(rot, hng, ch) : rot \in {reap_and_rotate(srv, lst)}})

\* Server::boot_at (server.rs:52-74)
boot_at(port, af, lst, hng, ch) == ensure_server(NewServer(port, af), lst, hng, ch)

\* Server::resample_ports (server.rs:171-189), new_port being the port drawn
resample_ports(srv, lst, hng, new_port, ch) ==
  LET moved   == [srv EXCEPT !.port = new_port, !.backup_port = backup_of(new_port),
                             !.resampled = TRUE]
      stopped == [moved EXCEPT !.child_proc = "None", !.connection = NoConn]
      reset(s) == [s EXCEPT !.call_count = 0, !.ok_calls = 0]
  IN  CASE srv.child_proc = "None" ->
             ensure_server(reset(moved), lst, hng, ch)
        [] srv.child_proc = "Exited" ->
             ensure_server(reset([moved EXCEPT !.child_proc = "None"]), lst, hng, ch)
        [] OTHER ->
             IF srv.connection.open /\ ~ShutdownSucceeds(srv.connection)
             THEN [srv |-> [stopped EXCEPT !.leaked = TRUE], lst |-> lst, ok |-> FALSE,
                   used |-> 0, seen |-> NoEnsure]
             ELSE ensure_server(reset(stopped), lst \ {srv.port}, hng, ch)

(***************************************************************************)
(* Server::convert (server.rs:77-96).  `killed` tells whether the daemon   *)
(* exited between the liveness check and the call.                         *)
(***************************************************************************)
\* the state in which the call of convert is made: as ensure_server left it,
\* or with the daemon gone since
at_call(es, ch) ==
  IF ch.die /\ es.srv.child_proc = "Running" /\ es.srv.port \in es.lst
  THEN [srv |-> [es.srv EXCEPT !.child_proc = "Exited"],
        lst |-> es.lst \ {es.srv.port}, used |-> es.used + 1, killed |-> TRUE]
  ELSE [srv |-> es.srv, lst |-> es.lst, used |-> es.used, killed |-> FALSE]

\* a variant of the call of convert that gives the stream up after every call
convert_call_closing(at, hng, job, ch) ==
  Only({[srv |-> [c.srv EXCEPT !.connection = NoConn], lst |-> at.lst,
         kind |-> IF c.kind = "ok" THEN "ok" ELSE "err",
         resp |-> IF c.kind = "ok" THEN c.resp ELSE LatexmlResponse_default,
         used |-> at.used + c.used, killed |-> at.killed, seen |-> c.seen] :
          c \in {call_latexmls(at.srv, at.lst, hng \cap at.lst, job, TRUE,
                               ch.r1, ch.r2)}})

\* the call of convert and what it returns (server.rs:79-95)
convert_call(at, hng, job, ch) ==
  Only({IF c.kind = "ok"
        THEN [srv |-> c.srv, lst |-> at.lst, kind |-> "ok", resp |-> c.resp,
              used |-> at.used + c.used, killed |-> at.killed, seen |-> c.seen]
        ELSE \* close connection on error
             [srv |-> [c.srv EXCEPT !.connection = NoConn], lst |-> at.lst,
              kind |-> "err", resp |-> LatexmlResponse_default,
              used |-> at.used + c.used, killed |-> at.killed, seen |-> c.seen] :
          c \in {call_latexmls(at.srv, at.lst, hng \cap at.lst, job, TRUE,
                               ch.r1, ch.r2)}})

convert(srv, lst, hng, job, ch) ==
  Only({IF ~es.ok
        THEN [srv |-> es.srv, lst |-> es.lst, kind |-> "err",
              resp |-> LatexmlResponse_default, used |-> es.used, killed |-> FALSE,
              seen |-> NoCall]
        ELSE Only({convert_call(at, hng, job, ch) : at \in {at_call(es, ch)}}) :
          es \in {ensure_server(srv, lst, hng, ch)}})

(***************************************************************************)
(* Drop for Server (server.rs:275-288).  A failing shutdown is unwrapped:  *)
(* the drop panics before it reaches the child.                            *)
(***************************************************************************)
drop_server(srv, lst) ==
  IF srv.connection.open /\ ~ShutdownSucceeds(srv.connection)
  THEN [srv |-> [srv EXCEPT !.dropped = TRUE, !.panicked = TRUE,
                            !.connection = NoConn,
                            !.leaked = @ \/ (srv.child_proc # "None")],
        lst |-> lst]
  ELSE [srv |-> [srv EXCEPT !.dropped = TRUE, !.connection = NoConn,
                            !.child_proc = "None"],
        lst |-> IF srv.child_proc = "Running" THEN lst \ {srv.port} ELSE lst]

(***************************************************************************)
(* Harness (harness.rs:19-25).  Workers are numbered 0 .. cpus-1, Server i *)
(* is booted at from_port + i (harness.rs:41-60).                          *)
(***************************************************************************)
WorkerIds == 0 .. cpus - 1

Threads == 1 .. rayon_threads

\* Harness.batch_size (harness.rs:66)
batch_size == BatchFactor * cpus

NoServer == -1

IdleTask ==
  [pc |-> "idle", index |-> 0, record |-> "", server |-> NoServer, attempt |-> 0,
   errs |-> 0, response |-> LatexmlResponse_empty]

NoOne == [done |-> FALSE, ok |-> FALSE, pool_before |-> 0, pool_after |-> 0,
          result |-> ""]

\* the input files of the model: the record streams a, b, a, b, ... of at most
\* MaxInput records (neighbouring records differ, so a swap of two is visible)
Inputs ==
  {[k \in 1 .. n |-> IF k % 2 = 1 THEN "a" ELSE "b"] : n \in 0 .. MaxInput}

\* A line or row of a file that its reader cannot decode (bytes that are not
\* UTF-8): BufRead::lines and csv's records() return Err for it and go on
\* with the next one.
Unreadable == "?"

\* the files of the model with unreadable lines or rows among the records
RawInputs ==
  {[k \in 1 .. n |-> IF k \in bad THEN Unreadable
                     ELSE IF k % 2 = 1 THEN "a" ELSE "b"] :
     n \in 0 .. MaxInput, bad \in SUBSET (1 .. MaxInput)}

Formats == {"txt", "csv"}

\* convert_txt_file (harness.rs:183-184):
\* reader.lines().map(|result| result.unwrap_or_else(|_| String::from("IOERROR")))
read_txt(raw) ==
  [k \in 1 .. Len(raw) |-> IF raw[k] = Unreadable THEN "IOERROR" ELSE raw[k]]

\* convert_csv_file (harness.rs:231-234):
\* reader.records().filter(|record| record.is_ok()).map(|record| record.unwrap())
RECURSIVE read_csv(_)
read_csv(raw) ==
  IF raw = <<>> THEN <<>>
  ELSE IF Head(raw) = Unreadable THEN read_csv(Tail(raw))
  ELSE <<Head(raw)>> \o read_csv(Tail(raw))

\* the record stream convert_file batches (harness.rs:154-163)
read_records(fmt, raw) == IF fmt = "txt" THEN read_txt(raw) ELSE read_csv(raw)

\* u8::to_string (harness.rs:204, 261): the decimal digits, most significant first
DigitChars == <<"0", "1", "2", "3", "4", "5", "6", "7", "8", "9">>

RECURSIVE to_string(_)
to_string(n) ==
  IF n < 10 THEN <<DigitChars[n + 1]>>
  ELSE to_string(n \div 10) \o <<DigitChars[(n % 10) + 1]>>

\* results.sort_by_key(|x| x.0) (harness.rs:298): a stable sort on the index
RECURSIVE insert_by_key(_, _)
insert_by_key(sorted, x) ==
  IF sorted = <<>> THEN <<x>>
  ELSE IF sorted[Len(sorted)][1] <= x[1] THEN Append(sorted, x)
  ELSE Append(insert_by_key(SubSeq(sorted, 1, Len(sorted) - 1), x), sorted[Len(sorted)])

\* a variant without the sort: the pairs stay in completion order
keep_completion_order(seq) == seq

RECURSIVE sort_by_key(_)
sort_by_key(seq) ==
  IF seq = <<>> THEN <<>>
  ELSE Only({insert_by_key(sorted, seq[Len(seq)]) :
               sorted \in {sort_by_key(SubSeq(seq, 1, Len(seq) - 1))}})

\* results.into_iter().map(|x| x.1).collect() (harness.rs:299)
Responses(pairs) == [k \in 1 .. Len(pairs) |-> pairs[k][2]]

\* a variant that returns the responses as the tasks delivered them
collect_unsorted(pairs) == Responses(pairs)

\* the sequence convert_iterator returns (harness.rs:298-299)
collect_results(pairs) == Responses(sort_by_key(pairs))

(***************************************************************************)
(* Init: the state after Harness::new returned (harness.rs:32-69): every   *)
(* Server booted on a free port, its init_call answered, and pushed into   *)
(* the queue.                                                              *)
(***************************************************************************)
(***************************************************************************)
(* main (main.rs:12-152).  The options of the command line are parsed into *)
(* matches.args, a HashMap keyed by the name of the option; PORT, CPUS,    *)
(* INPUT, OUTPUT and LOG are removed and every (key, value) left is pushed *)
(* onto boot_latexmls_opts in the order of matches.args.keys(), which is   *)
(* the order of the hash map and not that of the command line.  The value  *)
(* list of a flag is the parser's: empty, or one empty value.              *)
(***************************************************************************)
\* longest command line of the model, in pass-through options
MaxArgs == 3

\* the pass-through options of the model: three flags that toggle a math
\* output and one option that takes a value (main.rs:22-25, 99-102)
CliOptions == {"pmml", "cmml", "nomathtex", "preload"}

TakesValue == {"preload"}

\* the options main takes for itself and removes (main.rs:134-138)
OwnOptions == {"PORT", "CPUS", "INPUT", "OUTPUT", "LOG"}

\* the command lines: options without repetition, in every order
CommandLines ==
  UNION {{f \in [1 .. n -> CliOptions] : \A i, j \in 1 .. n : f[i] = f[j] => i = j} :
           n \in 0 .. MaxArgs}

\* the keys of matches.args after the removals; INPUT and OUTPUT are required
matches_args(line) ==
  ({line[k] : k \in 1 .. Len(line)} \cup {"INPUT", "OUTPUT"}) \ OwnOptions

\* the orders in which a HashMap may iterate over the keys
Orders(keys) ==
  {f \in [1 .. Cardinality(keys) -> keys] :
     \A i, j \in 1 .. Cardinality(keys) : f[i] = f[j] => i = j}

\* matches.values_of(key).unwrap() (main.rs:141)
values_of(key, fv) ==
  IF key \in TakesValue THEN <<"amsmath.sty">>
  ELSE IF fv THEN <<"">> ELSE <<>>

\* the loops of main.rs:140-144 over the keys in the order `order`
RECURSIVE push_options(_, _)
push_options(order, fv) ==
  IF order = <<>> THEN <<>>
  ELSE [k \in 1 .. Len(values_of(Head(order), fv)) |->
          <<Head(order), values_of(Head(order), fv)[k]>>]
       \o push_options(Tail(order), fv)

\* everything but the Servers, the queue and the daemons
Settings(counts, threads, flushes, budget, lines, at) ==
  /\ cpus \in counts
  /\ rayon_threads \in threads
  /\ strict_shutdown \in BOOLEAN
  /\ fault_budget = budget
  /\ autoflush \in flushes
  /\ faults = 0
  /\ kills = 0
  /\ hung = {}
  /\ hpc = at
  /\ ops = 0
  /\ file_format = "none"
  /\ raw_input = <<>>
  /\ input = <<>>
  /\ consumed = 0
  /\ chunk_data = <<>>
  /\ next_item = 1
  /\ tasks = [t \in 1 .. rayon_threads |-> IdleTask]
  /\ results = <<>>
  /\ result_sink = <<>>
  /\ log_sink = <<>>
  /\ sink_errs = <<>>
  /\ flushed = 0
  /\ file_state = "none"
  /\ last_one = NoOne
  /\ rotations = 0
  /\ argv \in lines
  /\ hash_order \in Orders(matches_args(argv))
  /\ flag_values \in (IF argv = <<>> THEN {FALSE} ELSE BOOLEAN)
  /\ boot_latexmls_opts = <<>>
  /\ last_call = NoCall
  /\ last_ensure = NoEnsure

InitFrom(counts, threads, flushes, budget, lines, at) ==
  /\ Settings(counts, threads, flushes, budget, lines, at)
  /\ servers = [i \in 0 .. cpus - 1 |->
                  boot_at(FromPort + i, autoflush, {}, {}, GoodChoice).srv]
  /\ queue = [k \in 1 .. cpus |-> k - 1]
  /\ listening = {FromPort + i : i \in 0 .. cpus - 1}

InitWith(counts, threads, flushes, budget) ==
  InitFrom(counts, threads, flushes, budget, {<<>>}, "ready")

Init == InitWith(CpuCounts, CpuCounts, {0, AutoflushK}, MaxFaults)

(***************************************************************************)
(* Harness::convert_file (harness.rs:154-163) through                      *)
(* setup_conversion_io (harness.rs:108-151).  Harness::new has already     *)
(* run a parallel iterator, so the global rayon pool exists: build_global  *)
(* returns an error whenever cpus differs from its thread count.  The      *)
(* model follows one convert_file call per Harness.                        *)
(***************************************************************************)
ConvertFile(fmt, raw) ==
  /\ hpc = "ready"
  /\ file_state = "none"
  /\ IF cpus # rayon_threads
     THEN /\ file_state' = "err"
          /\ UNCHANGED <<hpc, source, consumed, result_sink, log_sink, sink_errs, flushed>>
     ELSE /\ file_state' = "running"
          /\ hpc' = "file"
          /\ file_format' = fmt
          /\ raw_input' = raw
          /\ input' = read_records(fmt, raw)
          /\ consumed' = 0
          /\ result_sink' = <<>>
          /\ log_sink' = <<>>
          /\ sink_errs' = <<>>
          /\ flushed' = 0
  /\ UNCHANGED <<config, servers, queue, listening, hung, ops,
                 faults, kills, chunk_data, next_item, tasks, results, last_one, rotations>>

Min(a, b) == IF a <= b THEN a ELSE b

\* the head of the batch loop (harness.rs:187-192, 244-249): the next chunk of
\* at most batch_size records, or the end of the stream and `Ok(())`
NextBatch ==
  /\ hpc = "file"
  /\ IF consumed < Len(input)
     THEN LET last == Min(consumed + batch_size, Len(input))
          IN  /\ chunk_data' = SubSeq(input, consumed + 1, last)
              /\ consumed' = last
              /\ next_item' = 1
              /\ results' = <<>>
              /\ hpc' = "batch"
              /\ UNCHANGED file_state
     ELSE /\ hpc' = "ready"
          /\ file_state' = "ok"
          /\ UNCHANGED <<chunk_data, consumed, next_item, results>>
  /\ UNCHANGED <<config, servers, queue, listening, hung, ops,
                 faults, kills, source, tasks, result_sink, log_sink, sink_errs, flushed,
                 last_one, rotations>>

(***************************************************************************)
(* One task of convert_iterator (harness.rs:279-296), run by rayon thread  *)
(* t.  TaskBegin: par_bridge hands the next (index, record) to the thread, *)
(* which pops a Server; `pop().unwrap()` panics on an empty queue.         *)
(***************************************************************************)
TaskBegin(t) ==
  /\ hpc = "batch"
  /\ tasks[t].pc = "idle"
  /\ next_item <= Len(chunk_data)
  /\ next_item' = next_item + 1
  /\ IF queue = <<>>
     THEN /\ tasks' = [tasks EXCEPT ![t].pc = "dead"]
          /\ hpc' = "panicking"
          /\ UNCHANGED queue
     ELSE /\ tasks' = [tasks EXCEPT ![t] =
                         [pc |-> "convert", index |-> next_item - 1,
                          record |-> chunk_data[next_item], server |-> Head(queue),
                          attempt |-> 0, errs |-> 0,
                          response |-> LatexmlResponse_empty]]
          /\ queue' = Tail(queue)
          /\ UNCHANGED hpc
  /\ UNCHANGED <<config, servers, listening, hung, ops, faults, kills,
                 source, consumed, chunk_data, results, result_sink, log_sink, sink_errs,
                 flushed, file_state, last_one, rotations>>

\* one server.convert(record): the first call, retry 1 or retry 2
TaskConvert(t) ==
  /\ hpc \in {"batch", "panicking"}
  /\ tasks[t].pc = "convert"
  /\ LET w == tasks[t].server
         n == tasks[t].attempt + 1
     IN  \E r \in {convert(servers[w], listening, hung, tasks[t].record, ch) :
                     ch \in Choices(servers[w], listening, fault_budget - faults)} :
           /\ faults + r.used <= fault_budget
           /\ faults' = faults + r.used
           /\ kills' = IF r.killed THEN kills + 1 ELSE kills
           /\ servers' = [servers EXCEPT ![w] =
                             [r.srv EXCEPT !.killed_mid_batch = @ \/ r.killed]]
           /\ listening' = r.lst
           /\ hung' = hung \cap r.lst
           /\ tasks' = [tasks EXCEPT ![t] =
                IF r.kind = "ok"
                THEN [@ EXCEPT !.pc = "push", !.attempt = n, !.response = r.resp]
                ELSE IF n = MaxAttempts
                     THEN [@ EXCEPT !.pc = "push", !.attempt = n, !.errs = @ + 1,
                                    !.response = LatexmlResponse_default]
                     ELSE [@ EXCEPT !.attempt = n, !.errs = @ + 1]]
  /\ UNCHANGED <<config, queue, hpc, ops, source, consumed, chunk_data, next_item,
                 results, result_sink, log_sink, sink_errs, flushed, file_state,
                 last_one, rotations>>

\* `self.servers.push(server).unwrap(); (index, response)` (harness.rs:294-295):
\* the Server goes back and the pair joins the collected results
TaskEnd(t) ==
  /\ hpc \in {"batch", "panicking"}
  /\ tasks[t].pc = "push"
  /\ IF Len(queue) < cpus
     THEN /\ queue' = Append(queue, tasks[t].server)
          /\ results' = Append(results,
                                <<tasks[t].index, tasks[t].response, tasks[t].errs>>)
          /\ tasks' = [tasks EXCEPT ![t] = IdleTask]
          /\ UNCHANGED hpc
     ELSE /\ tasks' = [tasks EXCEPT ![t].pc = "dead"]
          /\ hpc' = "panicking"
          /\ UNCHANGED <<queue, results>>
  /\ UNCHANGED <<config, servers, listening, hung, ops, faults, kills,
                 source, consumed, chunk_data, next_item, result_sink, log_sink, sink_errs,
                 flushed, file_state, last_one, rotations>>

\* a variant of the flush that leaves the records in the buffers of the writers
keep_buffered(written) == 0

\* out_writer.flush(); log_writer.flush() (harness.rs:206-207, 263-264): the
\* number of records on disk once every record written so far has been flushed
flush(written) == Len(written)

\* the rest of the batch loop (harness.rs:192-207, 249-264): the results in
\* input order, the length assertion, one record per response in each sink,
\* and the flush of both sinks
FinishBatch ==
  /\ hpc = "batch"
  /\ next_item > Len(chunk_data)
  /\ \A t \in Threads : tasks[t].pc = "idle"
  /\ LET out == collect_results(results)
     IN  IF Len(out) # Len(chunk_data)
         THEN /\ hpc' = "panicked"
              /\ file_state' = "err"
              /\ UNCHANGED <<result_sink, log_sink, sink_errs, flushed>>
         ELSE /\ hpc' = "file"
              /\ UNCHANGED file_state
              /\ sink_errs' = sink_errs \o [k \in 1 .. Len(out) |-> sort_by_key(results)[k][3]]
              /\ result_sink' = result_sink \o [k \in 1 .. Len(out) |-> out[k].result]
              /\ log_sink' = log_sink \o
                               [k \in 1 .. Len(out) |-> to_string(out[k].status_code)]
              /\ flushed' = flush(result_sink')
  /\ UNCHANGED <<config, servers, queue, listening, hung, ops,
                 faults, kills, source, consumed, chunk_data, next_item, tasks, results,
                 last_one, rotations>>

\* a panic of a task reaches the caller of convert_iterator once the other
\* tasks of the batch have come to rest
BatchPanics ==
  /\ hpc = "panicking"
  /\ \A t \in Threads : tasks[t].pc \in {"idle", "dead"}
  /\ hpc' = "panicked"
  /\ file_state' = "err"
  /\ UNCHANGED <<config, servers, queue, listening, hung, ops,
                 faults, kills, source, consumed, chunk_data, next_item, tasks, results,
                 result_sink, log_sink, sink_errs, flushed, last_one, rotations>>

(***************************************************************************)
(* Harness::convert_one (harness.rs:302-315).  The calling thread owns the *)
(* Harness, so nothing else of the Harness runs meanwhile.  On an error of *)
(* convert the `?` returns at once: the popped Server is a local that goes *)
(* out of scope and is dropped.                                            *)
(***************************************************************************)
\* the jobs handed to convert_one; the Harness treats every job alike
OneJobs == {"a"}

ConvertOne(job) ==
  /\ hpc = "ready"
  /\ ops < MaxOnes
  /\ ops' = ops + 1
  /\ IF queue = <<>>
     THEN /\ hpc' = "panicked"
          /\ last_one' = [done |-> TRUE, ok |-> FALSE, pool_before |-> 0,
                          pool_after |-> 0, result |-> ""]
          /\ UNCHANGED <<servers, queue, listening, hung, faults, kills>>
     ELSE LET w == Head(queue)
          IN  \E r \in {convert(servers[w], listening, hung, job, ch) :
                          ch \in Choices(servers[w], listening, fault_budget - faults)} :
                    /\ faults + r.used <= fault_budget
                    /\ faults' = faults + r.used
                    /\ kills' = IF r.killed THEN kills + 1 ELSE kills
                    /\ IF r.kind = "ok"
                       THEN /\ servers' = [servers EXCEPT ![w] = r.srv]
                            /\ listening' = r.lst
                            /\ hung' = hung \cap r.lst
                            /\ queue' = Append(Tail(queue), w)
                            /\ last_one' = [done |-> TRUE, ok |-> TRUE,
                                            pool_before |-> Len(queue),
                                            pool_after |-> Len(queue'),
                                            result |-> r.resp.result]
                            /\ UNCHANGED hpc
                       ELSE \E d \in {drop_server(r.srv, r.lst)} :
                                  /\ servers' = [servers EXCEPT ![w] = d.srv]
                                  /\ listening' = d.lst
                                  /\ hung' = hung \cap d.lst
                                  /\ queue' = Tail(queue)
                                  /\ last_one' = [done |-> TRUE, ok |-> FALSE,
                                                  pool_before |-> Len(queue),
                                                  pool_after |-> Len(queue'),
                                                  result |-> ""]
                                  /\ hpc' = IF d.srv.panicked THEN "panicked" ELSE hpc
  /\ UNCHANGED <<config, source, consumed, chunk_data, next_item, tasks, results,
                 result_sink, log_sink, sink_errs, flushed, file_state, rotations>>

(***************************************************************************)
(* Drop for Harness (harness.rs:317-323): `while let Some(server) =        *)
(* self.servers.pop() { drop(server) }`.  When a Server's drop panics the  *)
(* rest of the queue is dropped by the unwinding; a second panic during    *)
(* unwinding aborts the process and nothing more is dropped.  A Harness    *)
(* that goes out of scope because of a panic is dropped while unwinding.   *)
(***************************************************************************)
HarnessDrop ==
  /\ hpc \in {"ready", "panicked"}
  /\ hpc' = IF hpc = "ready" THEN "dropping" ELSE "unwinding"
  /\ UNCHANGED <<config, servers, queue, listening, hung, ops,
                 faults, kills, source, consumed, chunk_data, next_item, tasks, results,
                 result_sink, log_sink, sink_errs, flushed, file_state, last_one, rotations>>

DropStep ==
  /\ hpc \in {"dropping", "unwinding"}
  /\ IF queue = <<>>
     THEN /\ hpc' = "dropped"
          /\ UNCHANGED <<servers, queue, listening, hung>>
     ELSE LET w == Head(queue)
          IN  \E d \in {drop_server(servers[w], listening)} :
                    /\ servers' = [servers EXCEPT ![w] = d.srv]
                    /\ listening' = d.lst
                    /\ hung' = hung \cap d.lst
                    /\ queue' = Tail(queue)
                    /\ hpc' = IF ~d.srv.panicked THEN hpc
                              ELSE IF hpc = "dropping" THEN "unwinding" ELSE "aborted"
  /\ UNCHANGED <<config, ops, faults, kills, source, consumed,
                 chunk_data, next_item, tasks, results, result_sink, log_sink, sink_errs,
                 flushed, file_state, last_one, rotations>>

(***************************************************************************)
(* The environment.  A daemon may exit on its own (--expire, a crash, a    *)
(* kill): the child of a Server exits, and either the port is released or  *)
(* the daemon lives on under another pid (server.rs:98-101).  A daemon     *)
(* that no Server holds a running child for may go away later.             *)
(***************************************************************************)
Running == {"ready", "file", "batch", "panicking"}

\* the Servers whose daemons the environment stops, and the ports they use
Victims == {0}
VictimPorts == UNION {{FromPort + w, FromPort + w + BackupOffset} : w \in Victims}

ChildExits(w, detach) ==
  /\ hpc \in Running
  /\ faults < fault_budget
  /\ ~servers[w].dropped
  /\ servers[w].child_proc = "Running"
  /\ faults' = faults + 1
  /\ kills' = kills + 1
  /\ listening' = IF detach THEN listening ELSE listening \ {servers[w].port}
  /\ hung' = hung \cap listening'
  /\ servers' = [servers EXCEPT ![w].child_proc = "Exited",
                                ![w].killed_mid_batch = @ \/ (hpc = "batch")]
  /\ UNCHANGED <<config, queue, hpc, ops, source, consumed,
                 chunk_data, next_item, tasks, results, result_sink, log_sink, sink_errs,
                 flushed, file_state, last_one, rotations>>

DaemonExits(p) ==
  /\ hpc \in Running
  /\ faults < fault_budget
  /\ p \in listening
  /\ \A w \in WorkerIds : ~(servers[w].child_proc = "Running" /\ servers[w].port = p)
  /\ faults' = faults + 1
  /\ kills' = kills + 1
  /\ listening' = listening \ {p}
  /\ hung' = hung \ {p}
  /\ UNCHANGED servers
  /\ UNCHANGED <<config, queue, hpc, ops, source, consumed,
                 chunk_data, next_item, tasks, results, result_sink, log_sink, sink_errs,
                 flushed, file_state, last_one, rotations>>

\* a daemon hangs: it keeps its port and answers no request any more
DaemonHangs(p) ==
  /\ hpc \in Running
  /\ faults < fault_budget
  /\ p \in listening \ hung
  /\ faults' = faults + 1
  /\ hung' = hung \cup {p}
  /\ UNCHANGED <<config, servers, queue, listening, hpc, ops,
                 kills, source, consumed, chunk_data, next_item, tasks, results, result_sink,
                 log_sink, sink_errs, flushed, file_state, last_one, rotations>>

Next ==
  \/ \E inp \in Inputs : ConvertFile("txt", inp)
  \/ NextBatch
  \/ \E t \in Threads : TaskBegin(t)
  \/ \E t \in Threads : TaskConvert(t)
  \/ \E t \in Threads : TaskEnd(t)
  \/ FinishBatch
  \/ BatchPanics
  \/ \E job \in OneJobs : ConvertOne(job)
  \/ HarnessDrop
  \/ DropStep
  \/ \E w \in Victims, detach \in BOOLEAN : ChildExits(w, detach)
  \/ \E p \in listening \cap VictimPorts : DaemonHangs(p)

Spec == Init /\ [][Next]_vars

\* a Harness of one Server, followed through more faults, among them the exit
\* of a daemon that had outlived the child of its Server
InitOne == InitWith({1}, {1}, {0, AutoflushK}, MaxServerFaults)

ServerNext ==
  \/ Next
  \/ \E p \in listening \cap VictimPorts : DaemonExits(p)

ServerSpec == InitOne /\ [][ServerNext]_vars

(***************************************************************************)
(* Port assignment.  Harness::new (harness.rs:40-60) boots Server i at     *)
(* from_port + i for whatever cpus it is given, boot_at (server.rs:59-70)  *)
(* sets the backup port BackupOffset above, and rotate_ports               *)
(* (server.rs:148-152) swaps the two.  This specification follows          *)
(* conversions without faults on Harnesses of up to BackupOffset + 1       *)
(* Servers until MaxRotations rotations have taken place.                  *)
(***************************************************************************)
PortCpus == {1, 2, BackupOffset, BackupOffset + 1}

\* the Servers that convert: the first two, and the one whose primary port is
\* the backup port of the first
PortWorkers == {0, 1, BackupOffset}

PortInit == InitWith(PortCpus, {1}, {AutoflushK}, 0)

\* one server.convert(job) on Server w, every exchange answered
PortConvert(w, job) ==
  /\ hpc = "ready"
  /\ rotations < MaxRotations
  /\ \E r \in {convert(servers[w], listening, hung, job, GoodChoice)} :
         /\ servers' = [servers EXCEPT ![w] = r.srv]
         /\ listening' = r.lst
         /\ rotations' = rotations + (r.srv.rotated - servers[w].rotated)
  /\ UNCHANGED <<config, queue, hung, hpc, ops, faults, kills, source, consumed,
                 chunk_data, next_item, tasks, results, result_sink, log_sink,
                 sink_errs, flushed, file_state, last_one>>

PortNext == \E w \in PortWorkers \cap WorkerIds, job \in Jobs : PortConvert(w, job)

PortSpec == PortInit /\ [][PortNext]_vars

(***************************************************************************)
(* Reading.  convert_file on files of either format with unreadable lines  *)
(* or rows among the records (harness.rs:154-163, 183-185, 231-235), the   *)
(* batches of the file converted by the tasks, a daemon hanging at times.  *)
(***************************************************************************)
FileInit == InitWith(CpuCounts, CpuCounts, {0}, MaxFaults)

FileNext ==
  \/ \E fmt \in Formats, raw \in RawInputs : ConvertFile(fmt, raw)
  \/ NextBatch
  \/ \E t \in Threads : TaskBegin(t)
  \/ \E t \in Threads : TaskConvert(t)
  \/ \E t \in Threads : TaskEnd(t)
  \/ FinishBatch
  \/ \E p \in listening \cap VictimPorts : DaemonHangs(p)

FileSpec == FileInit /\ [][FileNext]_vars

(***************************************************************************)
(* The command line.  main builds the boot-option list and hands it to     *)
(* Harness::new (main.rs:139-150).                                         *)
(***************************************************************************)
CliInit == InitFrom({1}, {1}, {0}, 0, CommandLines, "main")

Main ==
  /\ hpc = "main"
  /\ boot_latexmls_opts' = push_options(hash_order, flag_values)
  /\ hpc' = "ready"
  /\ UNCHANGED <<cpus, autoflush, rayon_threads, strict_shutdown, fault_budget,
                 hash_order, flag_values, argv, last_call, last_ensure, servers, queue,
                 listening, hung,
                 ops, faults, kills, source, consumed, chunk_data, next_item, tasks,
                 results, result_sink, log_sink, sink_errs, flushed, file_state,
                 last_one, rotations>>

CliNext == Main

CliSpec == CliInit /\ [][CliNext]_vars

(***************************************************************************)
(* Direct calls.  One Server, convert called on it MaxCalls times          *)
(* (server.rs:77-96), its child exiting and its daemon hanging at times.   *)
(***************************************************************************)
MaxCalls == 3

CallInit == InitWith({1}, {1}, {0, AutoflushK}, MaxServerFaults)

ServerCall(w, job) ==
  /\ hpc = "ready"
  /\ ops < MaxCalls
  /\ ops' = ops + 1
  /\ \E r \in {convert(servers[w], listening, hung, job, ch) :
                 ch \in Choices(servers[w], listening, fault_budget - faults)} :
         /\ faults + r.used <= fault_budget
         /\ faults' = faults + r.used
         /\ kills' = IF r.killed THEN kills + 1 ELSE kills
         /\ servers' = [servers EXCEPT ![w] = r.srv]
         /\ listening' = r.lst
         /\ hung' = hung \cap r.lst
         /\ last_call' = r.seen
  /\ UNCHANGED <<cpus, autoflush, rayon_threads, strict_shutdown, fault_budget, cli,
                 last_ensure, queue, hpc, source, consumed, chunk_data, next_item,
                 tasks, results, result_sink, log_sink, sink_errs, flushed, file_state,
                 last_one, rotations>>

CallNext ==
  \/ \E w \in WorkerIds, job \in Jobs : ServerCall(w, job)
  \/ \E w \in Victims, detach \in BOOLEAN : ChildExits(w, detach)
  \/ \E p \in listening \cap VictimPorts : DaemonHangs(p)

CallSpec == CallInit /\ [][CallNext]_vars

(***************************************************************************)
(* Booting and liveness.  One Server from its construction: boot_at        *)
(* (server.rs:52-74, called by Harness::new, harness.rs:41-60) on a port   *)
(* that is free or already bound by a daemon of an earlier run, then       *)
(* ensure_server (server.rs:102-145) and convert called on it, its child   *)
(* exiting and its daemon hanging or exiting at times.  A boot_at that     *)
(* returns an error drops the Server it built, and Harness::new panics.    *)
(***************************************************************************)
BootInit ==
  /\ Settings({1}, {1}, {0, AutoflushK}, MaxServerFaults, {<<>>}, "unborn")
  /\ servers = [i \in 0 .. cpus - 1 |-> NewServer(FromPort + i, autoflush)]
  /\ queue = <<>>
  /\ listening \in {{}, {FromPort}}

Boot(w) ==
  /\ hpc = "unborn"
  /\ ~Overflows(servers[w].port)
  /\ \E r \in {boot_at(servers[w].port, autoflush, listening, hung, ch) :
                 ch \in Choices(servers[w], listening, fault_budget - faults)} :
         /\ faults + r.used <= fault_budget
         /\ faults' = faults + r.used
         /\ last_ensure' = r.seen
         /\ IF r.ok
            THEN /\ servers' = [servers EXCEPT ![w] = r.srv]
                 /\ listening' = r.lst
                 /\ hung' = hung \cap r.lst
                 /\ queue' = Append(queue, w)
                 /\ hpc' = "ready"
            ELSE \E d \in {drop_server(r.srv, r.lst)} :
                       /\ servers' = [servers EXCEPT ![w] = d.srv]
                       /\ listening' = d.lst
                       /\ hung' = hung \cap d.lst
                       /\ hpc' = "panicked"
                       /\ UNCHANGED queue
  /\ UNCHANGED <<cpus, autoflush, rayon_threads, strict_shutdown, fault_budget, cli,
                 last_call, ops, kills, source, consumed, chunk_data, next_item,
                 tasks, results, result_sink, log_sink, sink_errs, flushed, file_state,
                 last_one, rotations>>

\* one server.ensure_server() on Server w
Ensure(w) ==
  /\ hpc = "ready"
  /\ ops < MaxCalls
  /\ ops' = ops + 1
  /\ \E r \in {ensure_server(servers[w], listening, hung, ch) :
                 ch \in Choices(servers[w], listening, fault_budget - faults)} :
         /\ faults + r.used <= fault_budget
         /\ faults' = faults + r.used
         /\ servers' = [servers EXCEPT ![w] = r.srv]
         /\ listening' = r.lst
         /\ hung' = hung \cap r.lst
         /\ last_ensure' = r.seen
  /\ UNCHANGED <<cpus, autoflush, rayon_threads, strict_shutdown, fault_budget, cli,
                 last_call, queue, hpc, kills, source, consumed, chunk_data, next_item,
                 tasks, results, result_sink, log_sink, sink_errs, flushed, file_state,
                 last_one, rotations>>

BootNext ==
  \/ \E w \in WorkerIds : Boot(w)
  \/ \E w \in WorkerIds : Ensure(w)
  \/ \E w \in WorkerIds, job \in Jobs : ServerCall(w, job)
  \/ \E w \in Victims, detach \in BOOLEAN : ChildExits(w, detach)
  \/ \E p \in listening \cap VictimPorts : DaemonHangs(p)
  \/ \E p \in listening \cap VictimPorts : DaemonExits(p)

BootSpec == BootInit /\ [][BootNext]_vars

(***************************************************************************)
(* Ports and children.  One Server booted at a port of BootPorts, among    *)
(* them the highest ports whose backup port is still a u16 and just is not *)
(* one, then rotate_ports (server.rs:148-167), ensure_server and convert   *)
(* called on it.  `port + 200` past the last port wraps, or panics in a    *)
(* build that checks overflow.  ChildSpec adds resample_ports              *)
(* (server.rs:171-189) and the exit of the child.                          *)
(***************************************************************************)
BootPorts == {FromPort, PortModulus - BackupOffset - 1, PortModulus - BackupOffset}

\* the ports resample_ports may draw in the model
ResamplePorts == {FromPort, FromPort + 1}

PairInit ==
  /\ Settings({1}, {1}, {0, AutoflushK}, MaxFaults, {<<>>}, "unborn")
  /\ servers \in {[i \in 0 .. cpus - 1 |-> NewServer(p + i, autoflush)] : p \in BootPorts}
  /\ queue = <<>>
  /\ listening = {}

\* boot_at at a port whose backup port is past the last port
BootOverflow(w, checked) ==
  /\ hpc = "unborn"
  /\ Overflows(servers[w].port)
  /\ IF checked
     THEN /\ hpc' = "panicked"
          /\ UNCHANGED <<servers, queue, listening, hung, faults, last_ensure>>
     ELSE \E r \in {boot_at(servers[w].port, autoflush, listening, hung, GoodChoice)} :
               /\ servers' = [servers EXCEPT ![w] = r.srv]
               /\ listening' = r.lst
               /\ last_ensure' = r.seen
               /\ queue' = Append(queue, w)
               /\ hpc' = "ready"
               /\ UNCHANGED <<hung, faults>>
  /\ UNCHANGED <<cpus, autoflush, rayon_threads, strict_shutdown, fault_budget, cli,
                 last_call, ops, kills, source, consumed, chunk_data, next_item,
                 tasks, results, result_sink, log_sink, sink_errs, flushed, file_state,
                 last_one, rotations>>

\* one server.rotate_ports() on Server w
Rotate(w) ==
  /\ hpc = "ready"
  /\ rotations < MaxRotations
  /\ rotations' = rotations + 1
  /\ \E r \in {rotate_ports(servers[w], listening)} :
         /\ servers' = [servers EXCEPT ![w] = r.srv]
         /\ listening' = r.lst
         /\ hung' = hung \cap r.lst
  /\ UNCHANGED <<config, queue, hpc, ops, faults, kills, source, consumed, chunk_data,
                 next_item, tasks, results, result_sink, log_sink, sink_errs, flushed,
                 file_state, last_one>>

\* one server.resample_ports(from, to) on Server w
Resample(w, new_port) ==
  /\ hpc = "ready"
  /\ rotations < MaxRotations
  /\ rotations' = rotations + 1
  /\ \E r \in {resample_ports(servers[w], listening, hung, new_port, ch) :
                 ch \in Choices(servers[w], listening, fault_budget - faults)} :
         /\ faults + r.used <= fault_budget
         /\ faults' = faults + r.used
         /\ servers' = [servers EXCEPT ![w] = r.srv]
         /\ listening' = r.lst
         /\ hung' = hung \cap r.lst
         /\ last_ensure' = r.seen
  /\ UNCHANGED <<cpus, autoflush, rayon_threads, strict_shutdown, fault_budget, cli,
                 last_call, queue, hpc, ops, kills, source, consumed, chunk_data,
                 next_item, tasks, results, result_sink, log_sink, sink_errs, flushed,
                 file_state, last_one>>

PairNext ==
  \/ \E w \in WorkerIds : Boot(w)
  \/ \E w \in WorkerIds, checked \in BOOLEAN : BootOverflow(w, checked)
  \/ \E w \in WorkerIds : Rotate(w)
  \/ \E w \in WorkerIds : Ensure(w)
  \/ \E w \in WorkerIds, job \in Jobs : ServerCall(w, job)

PairSpec == PairInit /\ [][PairNext]_vars

ChildInit ==
  /\ Settings({1}, {1}, {AutoflushK}, MaxFaults, {<<>>}, "unborn")
  /\ servers = [i \in 0 .. cpus - 1 |-> NewServer(FromPort + i, autoflush)]
  /\ queue = <<>>
  /\ listening = {}

ChildNext ==
  \/ \E w \in WorkerIds : Boot(w)
  \/ \E w \in WorkerIds : Rotate(w)
  \/ \E w \in WorkerIds, p \in ResamplePorts : Resample(w, p)
  \/ \E w \in WorkerIds : Ensure(w)
  \/ \E w \in WorkerIds, job \in Jobs : ServerCall(w, job)
  \/ \E w \in Victims, detach \in BOOLEAN : ChildExits(w, detach)

ChildSpec == ChildInit /\ [][ChildNext]_vars

(***************************************************************************)
(* Properties.                                                             *)
(***************************************************************************)
\* the sink lines of a record: what the daemon answers for it, or the sentinel
Answered(x, result, log) ==
  \/ result = Daemon(x).result /\ log = to_string(Daemon(x).status_code)
  \/ result = "" /\ log = <<"3">>

\* every task of the batch has delivered its pair
BatchDone ==
  /\ hpc = "batch"
  /\ next_item > Len(chunk_data)
  /\ \A t \in Threads : tasks[t].pc = "idle"

\* Servers held by the tasks of a batch
Held == {t \in Threads : tasks[t].server # NoServer}

\* C1 (alignment): after every completed batch and after convert_file has
\* returned, the result sink and the log sink each hold one record per input
\* record consumed so far, and the records at position i are those of input i
\* (the answer of the daemon or the sentinel); after the return every input
\* record is consumed.
C1_Alignment ==
  (hpc = "file" \/ file_state = "ok") =>
    /\ Len(result_sink) = consumed
    /\ Len(log_sink) = consumed
    /\ consumed <= Len(input)
    /\ \A i \in 1 .. consumed :
         i <= Len(result_sink) /\ i <= Len(log_sink)
         /\ Answered(input[i], result_sink[i], log_sink[i])
    /\ (file_state = "ok" => consumed = Len(input))

\* a batch was completed with a sentinel in it, and records are still to come
C1_Witness ==
  /\ hpc = "file"
  /\ 0 < consumed /\ consumed < Len(input)
  /\ \E i \in 1 .. Len(result_sink) : result_sink[i] = "" /\ log_sink[i] = <<"3">>

\* C2 (order preservation): whatever the order in which the tasks of a batch
\* complete, the sequence convert_iterator returns has at position k the
\* response of record k of the batch; when nothing fails that is the answer
\* f(x_k) of the daemon, for the batch and for the sinks over the whole stream.
C2_Order ==
  /\ BatchDone =>
       LET out == collect_results(results)
       IN  /\ Len(out) = Len(chunk_data)
           /\ \A k \in 1 .. Len(chunk_data) :
                k <= Len(out)
                /\ out[k] \in {Daemon(chunk_data[k]), LatexmlResponse_default}
                /\ (faults = 0 => out[k] = Daemon(chunk_data[k]))
  /\ (file_state = "ok" /\ faults = 0) =>
       /\ result_sink = [i \in 1 .. Len(input) |-> Daemon(input[i]).result]
       /\ log_sink = [i \in 1 .. Len(input) |-> to_string(Daemon(input[i]).status_code)]

\* the second record of a batch was delivered before the first
C2_Witness ==
  /\ BatchDone
  /\ faults = 0
  /\ Len(results) = 2
  /\ results[1][1] > results[2][1]

\* C3 (pool conservation): from construction to teardown the Servers in the
\* queue and the Servers held by tasks add up to cpus, each Server being in
\* exactly one of the two places.  convert_one breaks it: on an error of
\* convert it returns without pushing the popped Server back.
C3_PoolConservation ==
  hpc \in {"ready", "file", "batch"} =>
    /\ Len(queue) + Cardinality(Held) = cpus
    /\ \A w \in WorkerIds :
         Cardinality({k \in 1 .. Len(queue) : queue[k] = w})
           + Cardinality({t \in Threads : tasks[t].server = w}) = 1

\* C4 (sentinel on persistent failure): a record whose three attempts all
\* returned an error gets the sentinel (status_code 3, empty result), its task
\* goes on to hand the Server back, and its lines in the sinks are "" and "3".
C4_Sentinel ==
  /\ \A t \in Threads :
       tasks[t].errs = 3 =>
         /\ tasks[t].pc = "push"
         /\ tasks[t].response.status_code = 3
         /\ tasks[t].response.result = ""
  /\ \A k \in 1 .. Len(results) :
       results[k][3] = 3 =>
         results[k][2].status_code = 3 /\ results[k][2].result = ""
  /\ \A i \in 1 .. Len(sink_errs) :
       sink_errs[i] = 3 =>
         /\ i <= Len(result_sink) /\ result_sink[i] = ""
         /\ i <= Len(log_sink) /\ log_sink[i] = <<"3">>

\* convert_file returned Ok with a record that failed three times and another
\* record that was converted
C4_Witness ==
  /\ file_state = "ok"
  /\ \E i \in 1 .. Len(sink_errs) : sink_errs[i] = 3
  /\ \E j \in 1 .. Len(result_sink) : result_sink[j] # ""

\* C5 (convert_one returns its Server): after convert_one the queue holds as
\* many Servers as before the call.  On an error of convert it holds one less.
C5_ReturnsWorker ==
  last_one.done => last_one.pool_after = last_one.pool_before

\* C6 (autoflush rotation): no call begins once more than autoflush calls have
\* been answered since the last rotation, and no request is written to a
\* stream opened to the port the Server has rotated away from.  Both happen
\* after the child of a Server has exited.
C6_Rotation ==
  \A w \in WorkerIds :
    servers[w].autoflush > 0 => ~servers[w].over_begin /\ ~servers[w].old_port

\* C7 (recovery from the death of a daemon): when the only faults of a run are
\* exits of daemons, at most two of them, the retries on the same Server
\* absorb them: the Server boots a new daemon, no record is given the sentinel
\* (so never more than three in a row), and no record exhausts its attempts.
C7_Recovery ==
  (faults = kills /\ kills <= 2) =>
    /\ \A t \in Threads :
         tasks[t].pc = "push" =>
           tasks[t].errs < 3 /\ tasks[t].response = Daemon(tasks[t].record)
    /\ \A k \in 1 .. Len(results) :
         results[k][3] < 3 /\ results[k][2] # LatexmlResponse_default
    /\ \A i \in 1 .. Len(sink_errs) :
         sink_errs[i] < 3 /\ i <= Len(result_sink) /\ result_sink[i] # ""

\* a daemon was killed during a batch, a record met the error and was
\* converted by a retry, the Server has a new daemon, the file is complete
C7_Witness ==
  /\ file_state = "ok"
  /\ kills > 0 /\ faults = kills
  /\ \E w \in WorkerIds :
       /\ servers[w].killed_mid_batch
       /\ servers[w].child_proc = "Running"
       /\ servers[w].port \in listening
  /\ \E i \in 1 .. Len(sink_errs) : sink_errs[i] > 0 /\ result_sink[i] # ""

\* C8 (port partitioning): Server i keeps to the ports from_port + i and
\* from_port + i + 200, and no two Servers have a port in common, as port or
\* as backup port.  With more than 200 Servers the backup port of Server 0
\* is the port of Server 200.
C8_PortPartition ==
  /\ \A i \in WorkerIds :
       {servers[i].port, servers[i].backup_port}
         = {FromPort + i, FromPort + i + BackupOffset}
  /\ \A i, j \in WorkerIds :
       i # j => {servers[i].port, servers[i].backup_port}
                  \cap {servers[j].port, servers[j].backup_port} = {}

\* C9 (teardown): when the drop of the Harness is over no Server is left
\* undropped and no child is left running or un-reaped.  A panic in the drop
\* of a Server (C10) leaves its child behind.
C9_Teardown ==
  hpc \in {"dropped", "aborted"} =>
    /\ queue = <<>>
    /\ \A w \in WorkerIds :
         /\ servers[w].dropped
         /\ servers[w].child_proc = "None"
         /\ ~servers[w].leaked

\* C10 (idempotent teardown): the drop of a Server whose child has exited and
\* been reaped does not panic.  It does when the Server still holds a stream
\* to the daemon that is gone and the shutdown of that stream fails.
C10_DropNoPanic ==
  \A w \in WorkerIds :
    ~(servers[w].dropped /\ servers[w].panicked /\ servers[w].child_proc = "None")

\* C11 (no record silently dropped): when convert_file has returned Ok, each
\* sink holds one record per line or row of the file, an unreadable one
\* included, and the record at the position of a readable one is its answer
\* or the sentinel.  The csv reader filters the unreadable rows out, and the
\* rows after one move up.
C11_NoRecordDropped ==
  file_state = "ok" =>
    /\ Len(result_sink) = Len(raw_input)
    /\ Len(log_sink) = Len(raw_input)
    /\ \A i \in 1 .. Len(raw_input) :
         raw_input[i] # Unreadable =>
           /\ i <= Len(result_sink) /\ i <= Len(log_sink)
           /\ Answered(raw_input[i], result_sink[i], log_sink[i])

\* C12 (no starvation): in every batch every task that pops finds a Server in
\* the queue and every push finds room: no task panics on the unwrap of pop
\* or of push.  After a convert_one that returned an error the queue is one
\* Server short (C5), and the task that pops from the empty queue panics.
C12_NoStarvation ==
  /\ hpc # "panicking"
  /\ \A t \in Threads : tasks[t].pc # "dead"

\* C13 (termination): a convert_file that has begun to convert its input
\* does not end otherwise than by returning Ok: no batch is cut short by a
\* panic, whatever the conversions of its records return.  (An error of
\* setup_conversion_io ends the call before any record is read.)  After a
\* convert_one that returned an error (C5) the batch panics on the empty
\* queue, and convert_file never returns.
C13_Termination ==
  file_state = "err" => consumed = 0

\* the math-output toggles in their canonical order
MathOrder ==
  <<"pmml", "cmml", "openmath", "mathtex", "nopmml", "nocmml", "noopenmath", "nomathtex">>

MathToggles == {MathOrder[k] : k \in 1 .. Len(MathOrder)}

\* the members of `keep` in the order they have in seq
RECURSIVE Restrict(_, _)
Restrict(seq, keep) ==
  IF seq = <<>> THEN <<>>
  ELSE IF Head(seq) \in keep THEN <<Head(seq)>> \o Restrict(Tail(seq), keep)
  ELSE Restrict(Tail(seq), keep)

\* C14 (math-option ordering): whatever the order of the command line, the
\* boot-option list main hands to the Harness has the math-output toggles
\* that were given in the canonical order, after every other option.  main
\* pushes the options in the order of the hash map, and sorts nothing.
C14_MathOrder ==
  (hpc # "main") =>
    LET keys == [k \in 1 .. Len(boot_latexmls_opts) |-> boot_latexmls_opts[k][1]]
        given == {argv[k] : k \in 1 .. Len(argv)} \cap MathToggles
    IN  /\ Restrict(keys, MathToggles) = Restrict(MathOrder, given)
        /\ \A i, j \in 1 .. Len(keys) :
             (i < j /\ keys[i] \in MathToggles) => keys[j] \in MathToggles

\* the tasks whose last call of convert returned a record
Returned == {t \in Threads : tasks[t].pc = "push" /\ tasks[t].errs < tasks[t].attempt}

Failed ==
  {t \in Threads : /\ tasks[t].pc \in {"convert", "push"}
                   /\ tasks[t].attempt > 0
                   /\ tasks[t].errs = tasks[t].attempt}

\* C16 (connection closed on error): when convert has returned an error the
\* Server holds no stream.  An error of ensure_server leaves convert through
\* the `?` before the branch that closes the connection: when the spawn fails
\* on a Server whose child was reaped, the stream it held is still there.
C16_ClosedOnError ==
  \A t \in Failed : ~servers[tasks[t].server].connection.open

\* C17 (postcondition of rotate_ports): a rotate_ports that returned Ok has
\* left the ports swapped, call_count at 0, no child handle and no stream,
\* and has started no daemon.  When the child had already exited, reaped or
\* not, rotate_ports does not touch the connection: a stream the Server held
\* is still there.
C17_RotatePost ==
  \A w \in WorkerIds :
    servers[w].after_rotate.done =>
      /\ servers[w].after_rotate.swapped
      /\ servers[w].after_rotate.call_count = 0
      /\ servers[w].after_rotate.child_proc = "None"
      /\ ~servers[w].after_rotate.stream
      /\ ~servers[w].after_rotate.spawned

\* C18 (connection invariant): a Server holds a stream only to its current
\* port, on which a response was read since the last rotation, and never
\* writes a request to a stream opened to the port it has rotated away from.
\* The stream rotate_ports leaves behind (C17) is taken by the next call.
C18_ConnectionInvariant ==
  \A w \in WorkerIds :
    /\ servers[w].connection.open => servers[w].connection.port = servers[w].port
    /\ ~servers[w].old_port

\* C19 (response failures within one call): a call made with allow_retry
\* whose response is empty, without separator or undecodable sends the
\* request once more, and the retry, made without allow_retry, returns the
\* sentinel record and no error when its response fails in one of these
\* ways.  call_latexmls retries on an empty response only: every other
\* response it cannot decode is returned as the default record at once, and
\* an empty response to the retry is returned as an error.
C19_ResponseFailures ==
  last_call.done =>
    /\ last_call.first \in {"empty", "garbage"} => last_call.requests = 2
    /\ (last_call.requests = 2 /\ last_call.second \in {"empty", "garbage"}) =>
         (last_call.kind = "ok" /\ last_call.status_code = FatalCode)

\* a task between its pop and its push
Holding(t) == tasks[t].pc \in {"convert", "push"}

\* the conversions of task t so far follow the protocol: every call but the
\* last returned an error, none was made after a returned record or after the
\* third call, and the response it is about to emit is the returned record,
\* or the default record after three errors
Attempts(t) ==
  /\ tasks[t].pc = "convert" =>
       (tasks[t].attempt < MaxAttempts /\ tasks[t].errs = tasks[t].attempt)
  /\ tasks[t].pc = "push" =>
       /\ tasks[t].attempt \in 1 .. MaxAttempts
       /\ \/ tasks[t].errs = tasks[t].attempt - 1
          \/ /\ tasks[t].errs = MaxAttempts
             /\ tasks[t].attempt = MaxAttempts
             /\ tasks[t].response = LatexmlResponse_default

\* C20 (per-task protocol): every task takes one Server from the queue, which
\* no other task holds and which is not in the queue while the task holds it;
\* it calls convert at most three times, stops at the first call that returns
\* a record, and no task ends without having pushed its Server back and
\* emitted its pair.  After a convert_one that returned an error (C5) a task
\* finds the queue empty and ends at its pop, holding no Server.
C20_TaskProtocol ==
  \A t \in Threads :
    /\ tasks[t].pc # "dead"
    /\ Holding(t) =>
         /\ tasks[t].server \in WorkerIds
         /\ \A i \in 1 .. Len(queue) : queue[i] # tasks[t].server
         /\ \A u \in Threads \ {t} : Holding(u) => tasks[u].server # tasks[t].server
    /\ Attempts(t)
    /\ \A i, j \in 1 .. Len(queue) : queue[i] = queue[j] => i = j

\* C21 (serial batches, flushed one by one): while the records of a batch are
\* being converted, every record of the batches before it is in both sinks
\* and flushed, the tasks at work hold records of this batch only, and the
\* records taken from the input and not yet flushed are those of one batch,
\* at most batch_size of them.
C21_SerialBatches ==
  /\ consumed - flushed <= batch_size
  /\ (hpc \in {"batch", "panicking"} \/ \E t \in Threads : Holding(t)) =>
       /\ Len(chunk_data) <= batch_size
       /\ Len(result_sink) = consumed - Len(chunk_data)
       /\ Len(log_sink) = consumed - Len(chunk_data)
       /\ flushed = consumed - Len(chunk_data)
       /\ chunk_data = SubSeq(input, flushed + 1, consumed)
       /\ \A t \in Threads :
            Holding(t) =>
              /\ tasks[t].index < Len(chunk_data)
              /\ tasks[t].record = input[flushed + tasks[t].index + 1]

\* a record of the second batch is being converted, the first batch flushed
C21_Witness ==
  /\ hpc = "batch"
  /\ flushed > 0
  /\ flushed = Len(result_sink)
  /\ \E t \in Threads : tasks[t].pc = "convert" /\ tasks[t].attempt > 0

\* C22 (boot): a boot_at that returns a Server has spawned the daemon and
\* made an init_call that returned Ok, whatever held the port when it began.
\* On a port that is already bound boot_at returns a Server for which nothing
\* was spawned and no call was made.
C22_BootInitCall ==
  (hpc = "ready" /\ ops = 0) =>
    /\ last_ensure.done
    /\ last_ensure.inits >= 1
    /\ last_ensure.init_kind = "ok"

\* C23 (spawn rule): an ensure_server that finds the Server without a
\* running child and returns Ok has spawned a daemon and made the init_call,
\* and leaves a child handle.  ensure_server spawns when the port can be
\* bound, not when the child is gone.
C23_SpawnRule ==
  (last_ensure.done /\ last_ensure.ok /\ ~last_ensure.live_child) =>
    /\ last_ensure.spawned
    /\ last_ensure.inits >= 1
    /\ last_ensure.child_proc = "Running"

\* C24 (retry of the probe): an ensure_server that has spawned the daemon and
\* returns an error has called init_call twice.  It calls init_call once.
C24_ProbeRetry ==
  (last_ensure.done /\ last_ensure.spawned /\ ~last_ensure.ok) =>
    last_ensure.inits = 2

\* the call_counts with which the requests of the last direct convert and of
\* the init_call of the last direct ensure_server began
Began ==
  {last_call.began[k] : k \in 1 .. Len(last_call.began)}
    \cup {last_ensure.init.began[k] : k \in 1 .. Len(last_ensure.init.began)}

\* C25 (call-count invariant): with autoflush > 0 every request to the daemon,
\* the first of a convert, its resend within the call and those of an
\* init_call, begins with call_count at most autoflush.  The count is tested
\* once, at the head of ensure_server: the resend on an empty response and
\* the call that follows the init_call of a boot begin above the threshold.
C25_CallCount ==
  autoflush > 0 => \A n \in Began : n <= autoflush

\* C26 (autoflush disabled): with autoflush = 0 no convert, answered or
\* failed, rotates the Server: it keeps the port and the backup port boot_at
\* gave it.
C26_NoRotation ==
  autoflush = 0 =>
    \A w \in WorkerIds :
      /\ servers[w].rotated = 0
      /\ servers[w].port = FromPort + w
      /\ servers[w].backup_port = FromPort + w + BackupOffset
      /\ ~servers[w].after_rotate.done

\* with autoflush = 0, converts that were answered and one that failed have
\* taken the call_count of the Server past three
C26_Witness ==
  /\ autoflush = 0
  /\ ops >= 2
  /\ servers[0].call_count > 3
  /\ servers[0].ok_calls >= 2
  /\ last_call.done /\ last_call.kind = "err"

\* C27 (port pair): a Server that boot_at returned for port p and that was
\* not resampled has the ports p and p + 200, as port and backup port after
\* an even number of rotations and the other way round after an odd number.
\* For p above 65335 the backup port boot_at computes is p + 200 - 65536.
C27_PortPair ==
  \A w \in WorkerIds :
    (hpc = "ready" /\ ~servers[w].resampled) =>
      LET p == servers[w].boot_port
      IN  /\ {servers[w].port, servers[w].backup_port} = {p, p + BackupOffset}
          /\ servers[w].rotated % 2 = 0 =>
               (servers[w].port = p /\ servers[w].backup_port = p + BackupOffset)
          /\ servers[w].rotated % 2 = 1 =>
               (servers[w].port = p + BackupOffset /\ servers[w].backup_port = p)

\* C28 (single child): no daemon is spawned for a Server while a child it
\* spawned before is running and was not killed, and ensure_server leaves no
\* handle to a child that has exited.  When the shutdown of the stored stream
\* fails, rotate_ports, resample_ports and ensure_server return with the
\* child handle taken and the child not killed; the next ensure_server
\* spawns another daemon.
C28_SingleChild ==
  /\ \A w \in WorkerIds : ~servers[w].second_child
  /\ last_ensure.done => last_ensure.child_proc # "Exited"

====
